---- MODULE Spec2Model ----
(***************************************************************************)
(* A model of index.cjs, the single-file generator that reads package.json *)
(* and writes .cursorrules.  JavaScript strings are TLA+ strings, taken    *)
(* apart character by character with Head, Tail and SubSeq.                *)
(***************************************************************************)
EXTENDS Integers, Sequences, FiniteSets, TLC

VARIABLES manifest, tsconfig, cursorrules, pc, pkg, deps, ctx, fingerprint,
          stdout, stderr, exitCode, call, ret

vars == <<manifest, tsconfig, cursorrules, pc, pkg, deps, ctx, fingerprint,
          stdout, stderr, exitCode, call, ret>>

runVars == <<manifest, tsconfig, cursorrules, pc, pkg, deps, ctx, fingerprint,
             stdout, stderr, exitCode>>

-----------------------------------------------------------------------------
(* JavaScript values.  A value is a record tagged with its kind; an object  *)
(* carries its own enumerable properties as a function from keys.           *)

Undefined == [kind |-> "undefined"]

Null == [kind |-> "null"]

Str(s) == [kind |-> "string", str |-> s]

Obj(entries) == [kind |-> "object", entries |-> entries]

\* An object literal with no property ({}).
EmptyTable == [k \in {} |-> ""]

\* ToBoolean: undefined, null and the empty string are falsy; an object and
\* a non-empty string are truthy.
Truthy(v) ==
    CASE v.kind = "undefined" -> FALSE
      [] v.kind = "null" -> FALSE
      [] v.kind = "string" -> v.str # ""
      [] OTHER -> TRUE

\* a || b
Or(a, b) == IF Truthy(a) THEN a ELSE b

\* deps[key] on a table of version strings: undefined for a missing key.
Get(table, key) == IF key \in DOMAIN table THEN Str(table[key]) ELSE Undefined

-----------------------------------------------------------------------------
(* String primitives of the JavaScript runtime that the program uses.       *)

DigitChars == "0123456789"

Digits == {SubSeq(DigitChars, i, i) : i \in 1..Len(DigitChars)}

DigitVal(c) == (CHOOSE i \in 1..Len(DigitChars) : SubSeq(DigitChars, i, i) = c) - 1

LetterChars == "abcdefghijklmnopqrstuvwxyzABCDEFGHIJKLMNOPQRSTUVWXYZ"

Letters == {SubSeq(LetterChars, i, i) : i \in 1..Len(LetterChars)}

AllChars(s, set) == \A i \in 1..Len(s) : SubSeq(s, i, i) \in set

\* String.prototype.startsWith
startsWith(s, prefix) ==
    Len(prefix) <= Len(s) /\ SubSeq(s, 1, Len(prefix)) = prefix

endsWith(s, suffix) ==
    Len(suffix) <= Len(s) /\ SubSeq(s, Len(s) - Len(suffix) + 1, Len(s)) = suffix

\* The first position at which sub occurs in s, 0 when it does not occur.
indexOf(s, sub) ==
    LET hits == {i \in 1..(Len(s) - Len(sub) + 1) : SubSeq(s, i, i + Len(sub) - 1) = sub}
    IN  IF hits = {} THEN 0 ELSE CHOOSE i \in hits : \A j \in hits : i <= j

\* String.prototype.includes
includes(s, sub) == indexOf(s, sub) # 0

\* String.prototype.split with a non-empty separator: the pieces between the
\* successive, non-overlapping occurrences of sep, found left to right.
RECURSIVE split(_, _)
split(s, sep) ==
    LET i == indexOf(s, sep)
    IN  IF i = 0
        THEN <<s>>
        ELSE <<SubSeq(s, 1, i - 1)>> \o split(SubSeq(s, i + Len(sep), Len(s)), sep)

\* Array.prototype.join
RECURSIVE join(_, _)
join(parts, sep) ==
    IF Len(parts) = 0 THEN ""
    ELSE IF Len(parts) = 1 THEN parts[1]
    ELSE parts[1] \o sep \o join(Tail(parts), sep)

\* Number(s) for a non-empty string of decimal digits.
RECURSIVE Number(_)
Number(s) ==
    IF Len(s) = 0 THEN 0
    ELSE Number(SubSeq(s, 1, Len(s) - 1)) * 10 + DigitVal(SubSeq(s, Len(s), Len(s)))

\* The text a template literal gives a non-negative integer: its decimal
\* digits, with no leading zero.
RECURSIVE NumberToString(_)
NumberToString(n) ==
    IF n < 10 THEN SubSeq(DigitChars, n + 1, n + 1)
    ELSE NumberToString(n \div 10) \o SubSeq(DigitChars, (n % 10) + 1, (n % 10) + 1)

-----------------------------------------------------------------------------
(* getMajor                                                                  *)

\* version.replace(/[^0-9.]/g, ''): every character that is neither a digit
\* nor a period is dropped.
RECURSIVE StripNonVersionChars(_)
StripNonVersionChars(s) ==
    IF Len(s) = 0 THEN ""
    ELSE (IF Head(s) \in Digits \cup {"."} THEN Head(s) ELSE "")
         \o StripNonVersionChars(Tail(s))

\* A faulty variant of getMajor: the last period-separated segment is taken.
getMajorLastSegment(version) ==
    IF ~Truthy(version) THEN 0
    ELSE LET segs == split(StripNonVersionChars(version.str), ".")
             last == segs[Len(segs)]
         IN  IF last = "" THEN 0 ELSE Number(last)

getMajor(version) ==
    IF ~Truthy(version) THEN 0
    ELSE LET first == split(StripNonVersionChars(version.str), ".")[1]
         IN  IF first = "" THEN 0 ELSE Number(first)

-----------------------------------------------------------------------------
(* Project context detection                                                 *)

\* The packages whose presence marks a uni-app project, in the order the
\* code tests them.
UniAppPackages ==
    << "@dcloudio/uni-app", "@dcloudio/uni-h5", "@dcloudio/uni-mp-weixin",
       "@dcloudio/uni-mp-alipay", "@dcloudio/uni-mp-baidu",
       "@dcloudio/uni-mp-toutiao", "@dcloudio/uni-mp-qq", "@dcloudio/uni-mp-xhs",
       "@dcloudio/vue-cli-plugin-uni", "@dcloudio/vite-plugin-uni" >>

detectUniApp(d) ==
    LET hasUniApp == \E i \in 1..Len(UniAppPackages) : Truthy(Get(d, UniAppPackages[i]))
        vueVersion == Or(Get(d, "vue"), Get(d, "@dcloudio/uni-mp-vue"))
        major == IF Truthy(vueVersion) THEN getMajor(vueVersion) ELSE 2
    IN  IF ~hasUniApp THEN Null
        ELSE [kind |-> "object", isUniApp |-> TRUE, vueMajor |-> major]

\* platformMap, in declaration order.  The display names are Chinese text in
\* the source; each is written here as an ASCII tag.
platformMap ==
    << <<"mp-weixin", "name:weixin-miniprogram">>,
       <<"mp-alipay", "name:alipay-miniprogram">>,
       <<"mp-baidu", "name:baidu-miniprogram">>,
       <<"mp-toutiao", "name:bytedance-miniprogram">>,
       <<"mp-qq", "name:qq-miniprogram">>,
       <<"mp-xhs", "name:xiaohongshu-miniprogram">>,
       <<"h5", "name:H5">>,
       <<"app", "name:App">>,
       <<"app-plus", "name:App">>,
       <<"quickapp", "name:quickapp">> >>

\* The test of one platformMap entry against the joined scripts.
platformMatches(scripts, key) ==
    includes(scripts, key) \/ includes(scripts, "UNI_PLATFORM=" \o key)

\* A faulty variant of detectUniAppPlatform: the last matching entry is returned.
detectUniAppPlatformLast(p) ==
    IF ~Truthy(p.scripts) THEN Null
    ELSE LET scripts == join(p.scripts.entries, " ")
             hits == {i \in 1..Len(platformMap) : platformMatches(scripts, platformMap[i][1])}
         IN  IF hits = {} THEN Null
             ELSE LET i == CHOOSE h \in hits : \A j \in hits : h >= j
                  IN  [kind |-> "object", platform |-> platformMap[i][1],
                       platformName |-> platformMap[i][2]]

\* p.scripts, when present, is an object whose entries are the script
\* commands in insertion order (Object.values).
detectUniAppPlatform(p) ==
    IF ~Truthy(p.scripts) THEN Null
    ELSE LET scripts == join(p.scripts.entries, " ")
             hits == {i \in 1..Len(platformMap) : platformMatches(scripts, platformMap[i][1])}
         IN  IF hits = {} THEN Null
             ELSE LET i == CHOOSE h \in hits : \A j \in hits : h <= j
                  IN  [kind |-> "object", platform |-> platformMap[i][1],
                       platformName |-> platformMap[i][2]]

\* platformInfo?.platform || null
platformOf(info) == IF Truthy(info) THEN Or(Str(info.platform), Null) ELSE Null

platformNameOf(info) == IF Truthy(info) THEN Or(Str(info.platformName), Null) ELSE Null

\* tsExists stands for fs.existsSync('tsconfig.json').
detectContext(d, p, tsExists) ==
    LET isTS == Truthy(Get(d, "typescript")) \/ tsExists
        language == IF isTS THEN "TypeScript" ELSE "JavaScript"
        uniAppInfo == detectUniApp(d)
    IN  IF Truthy(uniAppInfo)
        THEN LET platformInfo == detectUniAppPlatform(p)
             IN  [framework |-> "uni-app", major |-> uniAppInfo.vueMajor,
                  language |-> language, platform |-> platformOf(platformInfo),
                  platformName |-> platformNameOf(platformInfo)]
        ELSE IF Truthy(Get(d, "vue"))
        THEN [framework |-> "vue", major |-> getMajor(Get(d, "vue")), language |-> language]
        ELSE IF Truthy(Get(d, "react"))
        THEN [framework |-> "react", major |-> getMajor(Get(d, "react")), language |-> language]
        ELSE [framework |-> "unknown", major |-> 0, language |-> language]

-----------------------------------------------------------------------------
(* Capability detectors.  Each returns Str(label) or Null.                   *)

\* `${name}${getMajor(v) || ''}`
labelWithOptionalMajor(name, v) ==
    LET major == getMajor(v)
    IN  Str(name \o (IF major # 0 THEN NumberToString(major) ELSE ""))

\* `${name}${getMajor(v)}`
labelWithMajor(name, v) == Str(name \o NumberToString(getMajor(v)))

detectUILib(d) ==
    IF Truthy(Get(d, "element-plus")) THEN labelWithOptionalMajor("element-plus", Get(d, "element-plus"))
    ELSE IF Truthy(Get(d, "element-ui")) THEN labelWithOptionalMajor("element-ui", Get(d, "element-ui"))
    ELSE IF Truthy(Get(d, "ant-design-vue")) THEN labelWithOptionalMajor("ant-design-vue", Get(d, "ant-design-vue"))
    ELSE IF Truthy(Get(d, "antd")) THEN labelWithOptionalMajor("antd", Get(d, "antd"))
    ELSE IF Truthy(Get(d, "vant")) THEN labelWithOptionalMajor("vant", Get(d, "vant"))
    ELSE Null

detectBundler(d) ==
    IF Truthy(Get(d, "vite")) THEN labelWithMajor("vite", Get(d, "vite"))
    ELSE IF Truthy(Get(d, "webpack")) THEN labelWithMajor("webpack", Get(d, "webpack"))
    ELSE IF Truthy(Get(d, "@vue/cli-service"))
    THEN (IF getMajor(Get(d, "@vue/cli-service")) >= 5 THEN Str("webpack5") ELSE Str("webpack4"))
    ELSE IF Truthy(Get(d, "react-scripts"))
    THEN (IF getMajor(Get(d, "react-scripts")) >= 5 THEN Str("webpack5") ELSE Str("webpack4"))
    ELSE Null

detectCssSolution(d) ==
    IF Truthy(Get(d, "tailwindcss")) THEN Str("tailwind")
    ELSE IF Truthy(Get(d, "less")) THEN Str("less")
    ELSE IF Truthy(Get(d, "sass")) \/ Truthy(Get(d, "node-sass")) THEN Str("sass")
    ELSE IF Truthy(Get(d, "stylus")) THEN Str("stylus")
    ELSE Str("css")

detectStateSolution(d) ==
    IF Truthy(Get(d, "pinia")) THEN labelWithMajor("pinia", Get(d, "pinia"))
    ELSE IF Truthy(Get(d, "vuex")) THEN labelWithMajor("vuex", Get(d, "vuex"))
    ELSE IF Truthy(Get(d, "redux")) THEN labelWithMajor("redux", Get(d, "redux"))
    ELSE IF Truthy(Get(d, "zustand")) THEN labelWithMajor("zustand", Get(d, "zustand"))
    ELSE Null

detectHttpClient(d, c) ==
    IF c.framework = "uni-app"
    THEN (IF Truthy(Get(d, "axios")) THEN Str("axios") ELSE Str("uni-request"))
    ELSE IF Truthy(Get(d, "axios")) THEN Str("axios")
    ELSE IF Truthy(Get(d, "@tanstack/query")) THEN Str("react-query")
    ELSE Str("fetch")

-----------------------------------------------------------------------------
(* Tech fingerprint                                                          *)

\* if (x) parts.push(x): a truthy label is one more part.
pushIf(v) == IF Truthy(v) THEN <<v.str>> ELSE <<>>

frameworkParts(c) ==
    IF c.framework = "uni-app"
    THEN <<"uni-app(vue" \o NumberToString(c.major) \o ")">>
         \o (IF Truthy(c.platform) THEN <<"platform:" \o c.platform.str>> ELSE <<>>)
    ELSE IF c.framework = "vue" THEN <<"vue" \o NumberToString(c.major)>>
    ELSE IF c.framework = "react" THEN <<"react" \o NumberToString(c.major)>>
    ELSE <<>>

\* A faulty variant of buildTechFingerprint: the state label is pushed before the
\* CSS label.
buildTechFingerprintStateFirst(c, d) ==
    join(frameworkParts(c) \o pushIf(detectUILib(d)) \o pushIf(detectBundler(d))
         \o pushIf(detectStateSolution(d)) \o pushIf(detectCssSolution(d))
         \o pushIf(detectHttpClient(d, c)), " + ")

buildTechFingerprint(c, d) ==
    join(frameworkParts(c) \o pushIf(detectUILib(d)) \o pushIf(detectBundler(d))
         \o pushIf(detectCssSolution(d)) \o pushIf(detectStateSolution(d))
         \o pushIf(detectHttpClient(d, c)), " + ")

-----------------------------------------------------------------------------
(* Documentation registry and lookup                                         *)

\* DOC_REGISTRY: library name -> (major -> URL).
DOC_REGISTRY ==
    [name \in { "vue", "uni-app", "react", "antd", "ant-design-vue", "element-ui",
                "element-plus", "vant", "webpack", "vite", "axios", "uni-request",
                "vuex", "pinia", "redux", "zustand" } |->
        CASE name = "vue" ->
                (2 :> "https://v2.cn.vuejs.org/v2/guide/"
                 @@ 3 :> "https://cn.vuejs.org/guide/introduction.html")
          [] name = "uni-app" ->
                (2 :> "https://uniapp.dcloud.net.cn/" @@ 3 :> "https://uniapp.dcloud.net.cn/")
          [] name = "react" ->
                (16 :> "https://react.dev/reference/react"
                 @@ 17 :> "https://react.dev/reference/react"
                 @@ 18 :> "https://react.dev/reference/react"
                 @@ 19 :> "https://react.dev/reference/react")
          [] name = "antd" ->
                (4 :> "https://4x.ant.design/components/overview-cn/"
                 @@ 5 :> "https://ant.design/components/overview-cn/")
          [] name = "ant-design-vue" ->
                (1 :> "https://1x.antdv.com/docs/vue/introduce-cn/"
                 @@ 2 :> "https://2x.antdv.com/docs/vue/introduce-cn/"
                 @@ 3 :> "https://www.antdv.com/components/overview-cn")
          [] name = "element-ui" ->
                (2 :> "https://element.eleme.io/#/zh-CN/component/quickstart")
          [] name = "element-plus" ->
                (2 :> "https://element-plus.org/zh-CN/component/overview.html")
          [] name = "vant" ->
                (2 :> "https://vant-ui.github.io/vant/v2/#/zh-CN/"
                 @@ 3 :> "https://vant-ui.github.io/vant/v3/#/zh-CN/"
                 @@ 4 :> "https://vant-ui.github.io/vant/#/zh-CN/")
          [] name = "webpack" ->
                (4 :> "https://v4.webpack.js.org/concepts/"
                 @@ 5 :> "https://webpack.js.org/concepts/")
          [] name = "vite" ->
                (4 :> "https://vitejs.dev/guide/" @@ 5 :> "https://vitejs.dev/guide/")
          [] name = "axios" -> (1 :> "https://axios-http.com/docs/intro")
          [] name = "uni-request" ->
                (1 :> "https://uniapp.dcloud.net.cn/api/request/request.html")
          [] name = "vuex" ->
                (3 :> "https://v3.vuex.vuejs.org/zh/" @@ 4 :> "https://vuex.vuejs.org/zh/")
          [] name = "pinia" -> (2 :> "https://pinia.vuejs.org/zh/")
          [] name = "redux" ->
                (4 :> "https://redux.js.org/" @@ 5 :> "https://redux.js.org/")
          [] name = "zustand" -> (4 :> "https://zustand-demo.pmnd.rs/")]

\* The position at which the trailing run of digits of s starts (Len(s) + 1
\* when s does not end in a digit).
trailingDigitsStart(s) ==
    CHOOSE i \in 1..(Len(s) + 1) :
        /\ AllChars(SubSeq(s, i, Len(s)), Digits)
        /\ \A j \in 1..(i - 1) : ~AllChars(SubSeq(s, j, Len(s)), Digits)

\* part.match(/^uni-app\(vue(\d+)\)$/): the digits captured, "" for no match.
uniAppMatch(part) ==
    LET inner == SubSeq(part, Len("uni-app(vue") + 1, Len(part) - 1)
    IN  IF /\ startsWith(part, "uni-app(vue")
           /\ endsWith(part, ")")
           /\ Len(inner) > 0
           /\ AllChars(inner, Digits)
        THEN inner ELSE ""

\* part.match(/^([a-zA-Z-]+)(\d+)$/): <<name, digits>>, <<>> for no match.
standardMatch(part) ==
    LET i == trailingDigitsStart(part)
        name == SubSeq(part, 1, i - 1)
        digits == SubSeq(part, i, Len(part))
    IN  IF Len(name) > 0 /\ Len(digits) > 0 /\ AllChars(name, Letters \cup {"-"})
        THEN <<name, digits>> ELSE <<>>

\* A faulty variant of parseLibAndVersion: the name pattern has no hyphen
\* (/^([a-zA-Z]+)(\d+)$/).
parseLibAndVersionNoHyphen(part) ==
    IF uniAppMatch(part) # ""
    THEN [kind |-> "object", name |-> "uni-app", major |-> Number(uniAppMatch(part))]
    ELSE IF startsWith(part, "platform:") THEN Null
    ELSE IF part = "uni-request" THEN [kind |-> "object", name |-> "uni-request", major |-> 1]
    ELSE IF standardMatch(part) = <<>> \/ ~AllChars(standardMatch(part)[1], Letters) THEN Null
    ELSE [kind |-> "object", name |-> standardMatch(part)[1],
          major |-> Number(standardMatch(part)[2])]

parseLibAndVersion(part) ==
    IF uniAppMatch(part) # ""
    THEN [kind |-> "object", name |-> "uni-app", major |-> Number(uniAppMatch(part))]
    ELSE IF startsWith(part, "platform:") THEN Null
    ELSE IF part = "uni-request" THEN [kind |-> "object", name |-> "uni-request", major |-> 1]
    ELSE IF standardMatch(part) = <<>> THEN Null
    ELSE [kind |-> "object", name |-> standardMatch(part)[1],
          major |-> Number(standardMatch(part)[2])]

\* The line one part contributes: <<line>>, or <<>> when the part is not
\* parsed, its name is not in the registry, or its major has no URL.  (A name
\* found only on Object.prototype has no numeric property, so it ends the
\* same way as a name that is not in the registry.)
docLine(part) ==
    LET parsed == parseLibAndVersion(part)
    IN  IF ~Truthy(parsed) THEN <<>>
        ELSE IF parsed.name \notin DOMAIN DOC_REGISTRY THEN <<>>
        ELSE IF parsed.major \notin DOMAIN DOC_REGISTRY[parsed.name] THEN <<>>
        ELSE <<"- " \o parsed.name \o "@" \o NumberToString(parsed.major) \o ": "
               \o DOC_REGISTRY[parsed.name][parsed.major]>>

RECURSIVE docLines(_)
docLines(parts) ==
    IF Len(parts) = 0 THEN <<>> ELSE docLine(Head(parts)) \o docLines(Tail(parts))

\* A faulty variant of buildDocListFromFingerprint: each line is put before the
\* lines already collected (unshift for push).
RECURSIVE docLinesReversed(_)
docLinesReversed(parts) ==
    IF Len(parts) = 0 THEN <<>> ELSE docLinesReversed(Tail(parts)) \o docLine(Head(parts))

buildDocListReversed(fp) == join(docLinesReversed(split(fp, " + ")), "\n")

buildDocListFromFingerprint(fp) == join(docLines(split(fp, " + ")), "\n")

-----------------------------------------------------------------------------
(* The rules document.  Its fixed prose is left out; the record holds the    *)
(* parts that vary with the project.                                         *)

buildL1Common(c) == IF c.language = "TypeScript" THEN "typescript-rules" ELSE "javascript-rules"

buildFrameworkRules(c) ==
    IF c.framework = "uni-app"
    THEN [block |-> "uni-app", platformName |-> c.platformName, platform |-> c.platform,
          major |-> c.major, vueRules |-> IF c.major >= 3 THEN "vue3" ELSE "vue2"]
    ELSE IF c.framework = "vue" /\ c.major = 2 THEN [block |-> "vue2"]
    ELSE IF c.framework = "vue" /\ c.major >= 3 THEN [block |-> "vue3"]
    ELSE IF c.framework = "react" THEN [block |-> "react"]
    ELSE [block |-> ""]

\* docs || placeholder
buildAntiHallucination(fp) ==
    LET docs == buildDocListFromFingerprint(fp)
    IN  IF docs # "" THEN docs ELSE "- no official documentation recognised"

buildRules(c, fp) ==
    [l1 |-> buildL1Common(c), framework |-> buildFrameworkRules(c),
     fingerprint |-> fp, docs |-> buildAntiHallucination(fp)]

-----------------------------------------------------------------------------
(* generate(): one run of the program                                        *)

\* readJSON: null for a missing file, the parsed value for a file that
\* parses, and an exception out of JSON.parse for one that does not.
\* A faulty variant of readJSON: a missing file reads as an empty object.
readJSONEmptyWhenMissing(file) ==
    IF file.kind = "absent"
    THEN [threw |-> FALSE,
          value |-> [kind |-> "object", dependencies |-> Undefined,
                     devDependencies |-> Undefined, scripts |-> Undefined]]
    ELSE IF file.kind = "invalid" THEN [threw |-> TRUE, value |-> Undefined]
    ELSE [threw |-> FALSE, value |-> file.value]

readJSON(file) ==
    IF file.kind = "absent" THEN [threw |-> FALSE, value |-> Null]
    ELSE IF file.kind = "invalid" THEN [threw |-> TRUE, value |-> Undefined]
    ELSE [threw |-> FALSE, value |-> file.value]

\* { ...a, ...b }
Spread(a, b) == [k \in DOMAIN a \cup DOMAIN b |-> IF k \in DOMAIN b THEN b[k] ELSE a[k]]

\* x || {}
OrEmpty(v) == IF Truthy(v) THEN v.entries ELSE EmptyTable

\* A faulty variant of mergeDeps: the two spreads are swapped.
mergeDepsDependenciesLast(p) == Spread(OrEmpty(p.devDependencies), OrEmpty(p.dependencies))

mergeDeps(p) == Spread(OrEmpty(p.dependencies), OrEmpty(p.devDependencies))

MsgNotFound == "error: package.json not found"

MsgParseError == "SyntaxError: JSON.parse"

MsgGenerated == "ok: .cursorrules generated"

MsgFingerprint(fp) == "   fingerprint: " \o fp

\* JSON.parse throws; nothing catches it and the process ends with status 1.
ReadManifestThrows ==
    /\ pc = "start"
    /\ readJSON(manifest).threw
    /\ stderr' = Append(stderr, MsgParseError)
    /\ exitCode' = 1
    /\ pc' = "crashed"
    /\ UNCHANGED <<manifest, tsconfig, cursorrules, pkg, deps, ctx, fingerprint, stdout,
                   call, ret>>

\* if (!pkg) { console.error(...); process.exit(1) }
ReadManifestMissing ==
    /\ pc = "start"
    /\ ~readJSON(manifest).threw
    /\ ~Truthy(readJSON(manifest).value)
    /\ pkg' = readJSON(manifest).value
    /\ stderr' = Append(stderr, MsgNotFound)
    /\ exitCode' = 1
    /\ pc' = "exited"
    /\ UNCHANGED <<manifest, tsconfig, cursorrules, deps, ctx, fingerprint, stdout,
                   call, ret>>

ReadManifestOk ==
    /\ pc = "start"
    /\ ~readJSON(manifest).threw
    /\ Truthy(readJSON(manifest).value)
    /\ pkg' = readJSON(manifest).value
    /\ pc' = "merge"
    /\ UNCHANGED <<manifest, tsconfig, cursorrules, deps, ctx, fingerprint, stdout,
                   stderr, exitCode, call, ret>>

MergeDeps ==
    /\ pc = "merge"
    /\ deps' = mergeDeps(pkg)
    /\ pc' = "context"
    /\ UNCHANGED <<manifest, tsconfig, cursorrules, pkg, ctx, fingerprint, stdout,
                   stderr, exitCode, call, ret>>

DetectContext ==
    /\ pc = "context"
    /\ ctx' = detectContext(deps, pkg, tsconfig)
    /\ pc' = "fingerprint"
    /\ UNCHANGED <<manifest, tsconfig, cursorrules, pkg, deps, fingerprint, stdout,
                   stderr, exitCode, call, ret>>

BuildFingerprint ==
    /\ pc = "fingerprint"
    /\ fingerprint' = buildTechFingerprint(ctx, deps)
    /\ pc' = "write"
    /\ UNCHANGED <<manifest, tsconfig, cursorrules, pkg, deps, ctx, stdout,
                   stderr, exitCode, call, ret>>

\* fs.writeFileSync('.cursorrules', rules, 'utf-8')
WriteRules ==
    /\ pc = "write"
    /\ cursorrules' = [exists |-> TRUE, content |-> buildRules(ctx, fingerprint)]
    /\ pc' = "log"
    /\ UNCHANGED <<manifest, tsconfig, pkg, deps, ctx, fingerprint, stdout,
                   stderr, exitCode, call, ret>>

LogSuccess ==
    /\ pc = "log"
    /\ stdout' = stdout \o <<MsgGenerated, MsgFingerprint(fingerprint)>>
    /\ pc' = "done"
    /\ UNCHANGED <<manifest, tsconfig, cursorrules, pkg, deps, ctx, fingerprint,
                   stderr, exitCode, call, ret>>

-----------------------------------------------------------------------------
(* Inputs of a run                                                           *)

\* The most entries a dependency table of an enumerated manifest holds.
MaxFlowDeps == 2

\* The most script commands an enumerated manifest holds.
MaxScripts == 2

\* The subsets of K with at most n elements.
RECURSIVE SubsetsUpTo(_, _)
SubsetsUpTo(K, n) ==
    IF n = 0 THEN {{}}
    ELSE LET smaller == SubsetsUpTo(K, n - 1)
         IN  smaller \cup {S \cup {k} : S \in smaller, k \in K}

\* The tables with at most n keys from K and values from V.
TablesUpTo(K, V, n) == UNION {[S -> V] : S \in SubsetsUpTo(K, n)}

\* The sequences of at most n elements of S.
RECURSIVE SeqsUpTo(_, _)
SeqsUpTo(S, n) ==
    IF n = 0 THEN {<<>>}
    ELSE LET shorter == SeqsUpTo(S, n - 1)
         IN  shorter \cup {Append(q, x) : q \in shorter, x \in S}

FlowPkgNames == {"vue", "@dcloudio/uni-app"}

FlowVersions == {"^3.2.1", "^2.6.0"}

ScriptCommands ==
    { "uni build -p mp-weixin", "uni -p h5", "cross-env UNI_PLATFORM=app-plus vue-cli-service uni-build",
      "uni build -p quickapp-webview", "vite build" }

FlowTables == {Undefined} \cup {Obj(t) : t \in TablesUpTo(FlowPkgNames, FlowVersions, MaxFlowDeps)}

FlowScripts == {Undefined} \cup {Obj(q) : q \in SeqsUpTo(ScriptCommands, MaxScripts)}

\* package.json as found on disk: missing, not JSON, the JSON value null, or
\* a JSON object with optional dependencies, devDependencies and scripts.
Manifests ==
    {[kind |-> "absent"], [kind |-> "invalid"], [kind |-> "json", value |-> Null]}
    \cup {[kind |-> "json",
           value |-> [kind |-> "object", dependencies |-> a, devDependencies |-> b,
                      scripts |-> sc]] :
            a \in FlowTables, b \in FlowTables, sc \in FlowScripts}

\* .cursorrules before the run: missing, or left by an earlier run.
NoFile == [exists |-> FALSE, content |-> Undefined]

OldFile == [exists |-> TRUE, content |-> Str("previous content")]

NoCall == [fn |-> "none"]

Init ==
    /\ manifest \in Manifests
    /\ tsconfig \in BOOLEAN
    /\ cursorrules \in {NoFile, OldFile}
    /\ pc = "start"
    /\ pkg = Undefined
    /\ deps = EmptyTable
    /\ ctx = Undefined
    /\ fingerprint = ""
    /\ stdout = <<>>
    /\ stderr = <<>>
    /\ exitCode = 0
    /\ call = NoCall
    /\ ret = Undefined

Next ==
    \/ ReadManifestThrows
    \/ ReadManifestMissing
    \/ ReadManifestOk
    \/ MergeDeps
    \/ DetectContext
    \/ BuildFingerprint
    \/ WriteRules
    \/ LogSuccess

Spec == Init /\ [][Next]_vars

-----------------------------------------------------------------------------
(* Calls of the program's functions on enumerated arguments.  A call leaves  *)
(* its function and arguments in `call` and what it returned in `ret`; each  *)
(* behaviour makes one call.                                                 *)

\* The longest enumerated version specifier.
MaxVerLen == 4

\* The most entries an enumerated merged dependency table holds.
MaxDeps == 2

\* The most segments an enumerated fingerprint string holds.
MaxSegments == 2

\* The strings of at most n characters of the alphabet A.
RECURSIVE StringsUpTo(_, _)
StringsUpTo(A, n) ==
    IF n = 0 THEN {""}
    ELSE LET shorter == StringsUpTo(A, n - 1)
         IN  shorter \cup {s \o c : s \in shorter, c \in A}

VerAlphabet == {"^", "0", "1", "3", ".", "x"}

ExampleVersions == {"^3.2.1", "~0.9.0", "latest", "^18.2.0", ">=1.2.0 <2.0.0", "*", "v10.4"}

VersionInputs ==
    {Undefined} \cup {Str(s) : s \in StringsUpTo(VerAlphabet, MaxVerLen) \cup ExampleVersions}

\* Version specifiers of the enumerated dependency tables: empty, without a
\* digit, below 5 and at 5.
Versions == {"", "latest", "^3.2.1", "^5.0.0"}

UniAppPkgNames == {UniAppPackages[i] : i \in 1..Len(UniAppPackages)}

ContextPkgNames ==
    UniAppPkgNames \cup {"vue", "@dcloudio/uni-mp-vue", "react", "typescript", "lodash"}

BundlerPkgNames == {"vite", "webpack", "@vue/cli-service", "react-scripts"}

HttpPkgNames == {"axios", "@tanstack/query", "lodash"}

CapabilityPkgNames ==
    { "element-plus", "element-ui", "ant-design-vue", "antd", "vant",
      "tailwindcss", "less", "sass", "node-sass", "stylus",
      "pinia", "vuex", "redux", "zustand" }
    \cup BundlerPkgNames \cup {"axios", "@tanstack/query"}

\* Two example dependency tables: a Vue 2 project with one package of each
\* category, and a project that depends on react alone.
ExampleVue2 ==
    [k \in {"vue", "element-ui", "vite", "tailwindcss", "pinia", "axios"} |->
        CASE k = "vue" -> "^2.6.0"
          [] k = "element-ui" -> "^2.15.0"
          [] k = "vite" -> "^4.0.0"
          [] k = "tailwindcss" -> "*"
          [] k = "pinia" -> "^2.0.0"
          [] k = "axios" -> "^1.0.0"]

ExampleReact18 == [k \in {"react"} |-> "^18.2.0"]

ExampleTables == {ExampleVue2, ExampleReact18}

NoScripts == [kind |-> "object", dependencies |-> Undefined,
              devDependencies |-> Undefined, scripts |-> Undefined]

WithScripts(q) == [kind |-> "object", dependencies |-> Undefined,
                   devDependencies |-> Undefined, scripts |-> Obj(q)]

CallPkgs == {NoScripts, WithScripts(<<"uni build -p mp-weixin">>)}

Languages == {"TypeScript", "JavaScript"}

Majors == {0, 2, 3, 18}

\* The platform fields detectContext can give a uni-app context.
Platforms ==
    {<<Null, Null>>} \cup {<<Str(platformMap[i][1]), Str(platformMap[i][2])>> : i \in {1, 7}}

\* The contexts detectContext can return.
Contexts ==
    {[framework |-> f, major |-> m, language |-> l] :
        f \in {"vue", "react"}, m \in Majors, l \in Languages}
    \cup {[framework |-> "unknown", major |-> 0, language |-> l] : l \in Languages}
    \cup {[framework |-> "uni-app", major |-> m, language |-> l,
           platform |-> pf[1], platformName |-> pf[2]] :
            m \in Majors, l \in Languages, pf \in Platforms}

FingerprintContexts ==
    {c \in Contexts :
        /\ c.language = "JavaScript"
        /\ c.major \in {0, 3}
        /\ (c.framework = "uni-app" => c.platform \in {Null, Str("h5")})}

\* The argument pairs of the enumerated buildTechFingerprint calls: the
\* contexts against the small tables, and each example with its own context.
FingerprintArgs ==
    (FingerprintContexts \X TablesUpTo(CapabilityPkgNames, {"", "latest", "^3.2.1"}, MaxDeps))
    \cup {<<detectContext(d, NoScripts, FALSE), d>> : d \in ExampleTables}

\* Fingerprint segments, well formed and not.
SegmentPool ==
    { "vite4", "vite04", "vite9", "vue2", "react18", "uni-app(vue3)", "uni-app(vue9)",
      "uni-app(vue)", "platform:h5", "uni-request", "axios", "axios1", "tailwind",
      "lodash4", "element-ui2", "", "vite4 ", "44", "vite4+vue2" }

FingerprintInputs == {join(q, " + ") : q \in SeqsUpTo(SegmentPool, MaxSegments) \ {<<>>}}

ApiInit ==
    /\ manifest = [kind |-> "absent"]
    /\ tsconfig = FALSE
    /\ cursorrules = NoFile
    /\ pc = "api"
    /\ pkg = Undefined
    /\ deps = EmptyTable
    /\ ctx = Undefined
    /\ fingerprint = ""
    /\ stdout = <<>>
    /\ stderr = <<>>
    /\ exitCode = 0
    /\ call = NoCall
    /\ ret = Undefined

CallGetMajor ==
    /\ call = NoCall
    /\ \E v \in VersionInputs :
            /\ call' = [fn |-> "getMajor", version |-> v]
            /\ ret' = getMajor(v)
            /\ UNCHANGED runVars

CallDetectContext ==
    /\ call = NoCall
    /\ \E d \in TablesUpTo(ContextPkgNames, Versions, MaxDeps), p \in CallPkgs, ts \in BOOLEAN :
            /\ call' = [fn |-> "detectContext", deps |-> d, pkg |-> p, tsExists |-> ts]
            /\ ret' = detectContext(d, p, ts)
            /\ UNCHANGED runVars

CallDetectBundler ==
    /\ call = NoCall
    /\ \E d \in TablesUpTo(BundlerPkgNames, Versions, Cardinality(BundlerPkgNames)) :
            /\ call' = [fn |-> "detectBundler", deps |-> d]
            /\ ret' = detectBundler(d)
            /\ UNCHANGED runVars

CallDetectHttpClient ==
    /\ call = NoCall
    /\ \E d \in TablesUpTo(HttpPkgNames, Versions, Cardinality(HttpPkgNames)), c \in Contexts :
            /\ call' = [fn |-> "detectHttpClient", deps |-> d, ctx |-> c]
            /\ ret' = detectHttpClient(d, c)
            /\ UNCHANGED runVars

CallBuildTechFingerprint ==
    /\ call = NoCall
    /\ \E a \in FingerprintArgs :
            /\ call' = [fn |-> "buildTechFingerprint", ctx |-> a[1], deps |-> a[2]]
            /\ ret' = buildTechFingerprint(a[1], a[2])
            /\ UNCHANGED runVars

CallBuildDocListFromFingerprint ==
    /\ call = NoCall
    /\ \E fp \in FingerprintInputs :
            /\ call' = [fn |-> "buildDocListFromFingerprint", fingerprint |-> fp]
            /\ ret' = buildDocListFromFingerprint(fp)
            /\ UNCHANGED runVars

NextDetect ==
    \/ CallDetectContext
    \/ CallDetectBundler
    \/ CallDetectHttpClient

SpecGetMajor == ApiInit /\ [][CallGetMajor]_vars

SpecDetect == ApiInit /\ [][NextDetect]_vars

SpecFingerprint == ApiInit /\ [][CallBuildTechFingerprint]_vars

SpecDocs == ApiInit /\ [][CallBuildDocListFromFingerprint]_vars

-----------------------------------------------------------------------------
(* Properties                                                                *)

\* The decimal value of the digits among the first n characters of s.
RECURSIVE DigitsValue(_, _)
DigitsValue(s, n) ==
    IF n = 0 THEN 0
    ELSE IF SubSeq(s, n, n) \in Digits
    THEN DigitsValue(s, n - 1) * 10 + DigitVal(SubSeq(s, n, n))
    ELSE DigitsValue(s, n - 1)

\* The major as the documentation defines it: the digits that stand before
\* the first period of the specifier, read as one decimal number; 0 for an
\* absent specifier and for one with no digit before its first period.
ClaimMajor(v) ==
    IF v = Undefined THEN 0
    ELSE LET p == indexOf(v.str, ".")
         IN  DigitsValue(v.str, IF p = 0 THEN Len(v.str) ELSE p - 1)

-----------------------------------------------------------------------------

\* <<the label>> of a detector's result, <<>> for null.
Segment(v) == IF v = Null THEN <<>> ELSE <<v.str>>

ClaimFrameworkLabels(c) ==
    CASE c.framework = "vue" -> <<"vue" \o NumberToString(c.major)>>
      [] c.framework = "react" -> <<"react" \o NumberToString(c.major)>>
      [] c.framework = "uni-app" ->
            <<"uni-app(vue" \o NumberToString(c.major) \o ")">>
            \o (IF c.platform = Null THEN <<>> ELSE <<"platform:" \o c.platform.str>>)
      [] OTHER -> <<>>

-----------------------------------------------------------------------------

Pair(name, major) == [kind |-> "object", name |-> name, major |-> major]

\* The library names a label carries together with a major.
VersionedNames ==
    { "vue", "react", "element-plus", "element-ui", "ant-design-vue", "antd", "vant",
      "vite", "webpack", "pinia", "vuex", "redux", "zustand" }

UILibNames == {"element-plus", "element-ui", "ant-design-vue", "antd", "vant"}

\* The labels that carry no major: the CSS labels, three of the HTTP labels
\* and a UI label whose major is 0.
UnversionedLabels ==
    {"css", "tailwind", "less", "sass", "stylus", "axios", "fetch", "react-query"}
    \cup UILibNames

\* The majors a label of this call can carry: the context's, those of the
\* table's specifiers, and the two a scaffolding tool stands for.
CallMajors(c, d) ==
    {c.major} \cup {ClaimMajor(Str(d[k])) : k \in DOMAIN d} \cup {4, 5}

\* The pairs (library name, major of the call) that seg is the label of:
\* seg is the name followed by the decimal digits of the major.
VersionedPairs(seg, majors) ==
    {pr \in {Pair(n, m) : n \in {x \in VersionedNames : startsWith(seg, x)}, m \in majors} :
        seg = pr.name \o NumberToString(pr.major)}

\* The same for the uni-app label, uni-app(vue<major>).
UniAppPairs(seg, majors) ==
    IF ~startsWith(seg, "uni-app(vue") THEN {}
    ELSE {pr \in {Pair("uni-app", m) : m \in majors} :
            seg = "uni-app(vue" \o NumberToString(pr.major) \o ")"}

PlatformSegments == {"platform:" \o platformMap[i][1] : i \in 1..Len(platformMap)}

\* What the round trip promises for one segment of the fingerprint; every
\* segment the builder makes has one of these shapes.
RoundTrips(seg, majors) ==
    IF VersionedPairs(seg, majors) # {}
    THEN \A pr \in VersionedPairs(seg, majors) : parseLibAndVersion(seg) = pr
    ELSE IF UniAppPairs(seg, majors) # {}
    THEN \A pr \in UniAppPairs(seg, majors) : parseLibAndVersion(seg) = pr
    ELSE IF seg = "uni-request" THEN parseLibAndVersion(seg) = Pair("uni-request", 1)
    ELSE /\ seg \in UnversionedLabels \cup PlatformSegments
         /\ parseLibAndVersion(seg) = Null

-----------------------------------------------------------------------------

\* The line of the segment seg: <<line>> when a pair is recovered from it
\* and the registry holds that name and that major, <<>> otherwise.
ClaimLine(seg) ==
    LET parsed == parseLibAndVersion(seg)
    IN  IF /\ parsed # Null
           /\ parsed.name \in DOMAIN DOC_REGISTRY
           /\ parsed.major \in DOMAIN DOC_REGISTRY[parsed.name]
        THEN <<"- " \o parsed.name \o "@" \o NumberToString(parsed.major) \o ": "
               \o DOC_REGISTRY[parsed.name][parsed.major]>>
        ELSE <<>>

\* The lines of the first n segments, in the segments' order.
RECURSIVE ClaimLines(_, _)
ClaimLines(segs, n) ==
    IF n = 0 THEN <<>> ELSE ClaimLines(segs, n - 1) \o ClaimLine(segs[n])

\* C6: for every fingerprint string, buildDocListFromFingerprint gives one
\* line "- <name>@<major>: <url>" for each " + "-separated segment from which
\* a pair is recovered and whose name and major the registry holds, nothing
\* for any other segment, the lines in the order of their segments; "vite4"
\* gives exactly the line of vite major 4.
C6_DocList ==
    call.fn = "buildDocListFromFingerprint" =>
        LET segs == split(call.fingerprint, " + ")
        IN  /\ ret = join(ClaimLines(segs, Len(segs)), "\n")
            /\ (call.fingerprint = "vite4" => ret = "- vite@4: https://vitejs.dev/guide/")
            /\ (call.fingerprint \in {"lodash4", "vite9", "platform:h5", "tailwind", ""}
                    => ret = "")

C6_Witness ==
    /\ call.fn = "buildDocListFromFingerprint"
    /\ call.fingerprint = "vue2 + vite4"
    /\ ret = "- vue@2: https://v2.cn.vuejs.org/v2/guide/\n- vite@4: https://vitejs.dev/guide/"

-----------------------------------------------------------------------------

\* The package is in the table.
Present(d, k) == k \in DOMAIN d

ClaimFramework(d) ==
    IF \E k \in UniAppPkgNames : Present(d, k) THEN "uni-app"
    ELSE IF Present(d, "vue") THEN "vue"
    ELSE IF Present(d, "react") THEN "react"
    ELSE "unknown"

ClaimFrameworkMajor(d) ==
    CASE ClaimFramework(d) = "uni-app" ->
            IF Present(d, "vue") THEN ClaimMajor(Str(d["vue"]))
            ELSE IF Present(d, "@dcloudio/uni-mp-vue")
            THEN ClaimMajor(Str(d["@dcloudio/uni-mp-vue"]))
            ELSE 2
      [] ClaimFramework(d) = "vue" -> ClaimMajor(Str(d["vue"]))
      [] ClaimFramework(d) = "react" -> ClaimMajor(Str(d["react"]))
      [] OTHER -> 0

\* C3: detectContext decides the framework by first match: uni-app when any
\* of the ten @dcloudio packages is in the table, else vue when vue is, else
\* react when react is, else unknown with major 0; the major of vue and of
\* react is the parsed major of that package's version, and the major of
\* uni-app is the parsed major of the vue entry (failing that, of the
\* @dcloudio/uni-mp-vue entry) when one is present and 2 otherwise.
C3_FrameworkByPresence ==
    call.fn = "detectContext" =>
        /\ ret.framework = ClaimFramework(call.deps)
        /\ ret.major = ClaimFrameworkMajor(call.deps)

\* C8: detectBundler returns vite<major> when vite is present, else
\* webpack<major> when webpack is present, else for a present
\* @vue/cli-service webpack5 when its major is at least 5 and webpack4 when
\* it is below, else the same for a present react-scripts, else null.
C8_BundlerByPresence ==
    call.fn = "detectBundler" =>
        LET d == call.deps
        IN  ret =
             IF Present(d, "vite") THEN Str("vite" \o NumberToString(ClaimMajor(Str(d["vite"]))))
             ELSE IF Present(d, "webpack")
             THEN Str("webpack" \o NumberToString(ClaimMajor(Str(d["webpack"]))))
             ELSE IF Present(d, "@vue/cli-service")
             THEN (IF ClaimMajor(Str(d["@vue/cli-service"])) >= 5
                   THEN Str("webpack5") ELSE Str("webpack4"))
             ELSE IF Present(d, "react-scripts")
             THEN (IF ClaimMajor(Str(d["react-scripts"])) >= 5
                   THEN Str("webpack5") ELSE Str("webpack4"))
             ELSE Null

\* C7: detectHttpClient returns, for a uni-app context, axios when axios is
\* in the table and uni-request otherwise; for any other context axios when
\* axios is present, else react-query when @tanstack/query is present, else
\* fetch; uni-request is never returned for a context that is not uni-app.
C7_HttpByPresence ==
    call.fn = "detectHttpClient" =>
        LET d == call.deps
        IN  /\ ret =
                 IF call.ctx.framework = "uni-app"
                 THEN (IF Present(d, "axios") THEN Str("axios") ELSE Str("uni-request"))
                 ELSE IF Present(d, "axios") THEN Str("axios")
                 ELSE IF Present(d, "@tanstack/query") THEN Str("react-query")
                 ELSE Str("fetch")
            /\ (call.ctx.framework # "uni-app" => ret # Str("uni-request"))

-----------------------------------------------------------------------------

\* package.json is missing, or is there and does not parse.
BadManifest == manifest.kind \in {"absent", "invalid"}

\* C2: in a run whose manifest is absent or does not parse, the run ends
\* with a non-zero status (its one step out of the start is always enabled
\* and leads there), the success line is never printed, and .cursorrules is
\* neither created nor modified: the write step is never reached.
C2_BadManifestFails ==
    /\ [](BadManifest =>
            /\ pc \in {"start", "exited", "crashed"}
            /\ (pc = "start" => ENABLED (ReadManifestThrows \/ ReadManifestMissing))
            /\ (pc # "start" => exitCode # 0)
            /\ stdout = <<>>)
    /\ [][BadManifest => cursorrules' = cursorrules]_vars

C2_Witness ==
    /\ manifest.kind = "invalid"
    /\ pc = "crashed"
    /\ exitCode = 1
    /\ cursorrules = OldFile

-----------------------------------------------------------------------------

\* A table of the manifest, an absent one counting as empty.
ClaimTable(v) == IF v = Undefined THEN EmptyTable ELSE v.entries

\* The run has built its merged table.
Merged == pc \in {"context", "fingerprint", "write", "log", "done"}

\* C5: the merged table holds exactly the keys of dependencies and of
\* devDependencies (an absent table counting as empty); a key of both has
\* the devDependencies value, a key of one table has that table's value.
C5_MergedTable ==
    Merged =>
        LET a == ClaimTable(pkg.dependencies)
            b == ClaimTable(pkg.devDependencies)
        IN  /\ DOMAIN deps = DOMAIN a \cup DOMAIN b
            /\ \A k \in DOMAIN deps :
                  /\ (k \in DOMAIN b => deps[k] = b[k])
                  /\ (k \notin DOMAIN b => deps[k] = a[k])

C5_Witness ==
    /\ pc = "done"
    /\ pkg.dependencies # Undefined
    /\ pkg.devDependencies # Undefined
    /\ "vue" \in DOMAIN pkg.dependencies.entries \cap DOMAIN pkg.devDependencies.entries
    /\ pkg.dependencies.entries["vue"] = "^3.2.1"
    /\ pkg.devDependencies.entries["vue"] = "^2.6.0"
    /\ deps["vue"] = "^2.6.0"

-----------------------------------------------------------------------------

\* The platform keywords in the platform table's declaration order.
ClaimPlatformOrder ==
    << "mp-weixin", "mp-alipay", "mp-baidu", "mp-toutiao", "mp-qq", "mp-xhs",
       "h5", "app", "app-plus", "quickapp" >>

\* The space-joined script commands of the manifest.
ClaimScripts(p) == join(p.scripts.entries, " ")

\* The position in ClaimPlatformOrder of the first keyword that occurs in
\* the manifest's scripts, 0 when there are no scripts or none occurs.
ClaimPlatformIndex(p) ==
    IF p.scripts = Undefined THEN 0
    ELSE LET found == {i \in 1..Len(ClaimPlatformOrder) :
                          includes(ClaimScripts(p), ClaimPlatformOrder[i])}
         IN  IF found = {} THEN 0 ELSE CHOOSE i \in found : \A j \in found : i <= j

\* The run has detected its context.
Detected == pc \in {"fingerprint", "write", "log", "done"}

\* The run has built its fingerprint.
Fingerprinted == pc \in {"write", "log", "done"}

HasPlatformSegment(fp) ==
    \E i \in 1..Len(split(fp, " + ")) : startsWith(split(fp, " + ")[i], "platform:")

\* C9: for a uni-app project the recorded platform and platformName are
\* those of the first entry of the platform table, in declaration order,
\* whose keyword occurs in the space-joined script commands; with no such
\* keyword, or no scripts, both are unset and the fingerprint has no
\* platform: segment.  For any other framework no platform is recorded.
C9_Platform ==
    /\ Detected /\ ctx.framework = "uni-app" =>
          LET i == ClaimPlatformIndex(pkg)
          IN  IF i = 0
              THEN /\ ctx.platform = Null
                   /\ ctx.platformName = Null
                   /\ (Fingerprinted => ~HasPlatformSegment(fingerprint))
              ELSE /\ ctx.platform = Str(ClaimPlatformOrder[i])
                   /\ ctx.platformName = Str(platformMap[i][2])
                   /\ platformMap[i][1] = ClaimPlatformOrder[i]
    /\ Detected /\ ctx.framework # "uni-app" =>
          /\ "platform" \notin DOMAIN ctx
          /\ "platformName" \notin DOMAIN ctx
          /\ (Fingerprinted => ~HasPlatformSegment(fingerprint))

C9_Witness ==
    /\ pc = "done"
    /\ ctx.framework = "uni-app"
    /\ pkg.scripts # Undefined
    /\ includes(ClaimScripts(pkg), "app-plus")
    /\ includes(ClaimScripts(pkg), "h5")
    /\ indexOf(ClaimScripts(pkg), "app-plus") < indexOf(ClaimScripts(pkg), "h5")
    /\ ctx.platform = Str("h5")
    /\ fingerprint = "uni-app(vue2) + platform:h5 + css + uni-request"

====
